---- MODULE Spec2Model ----
(***************************************************************************)
(* Model of the PDF ingestion pipeline:                                    *)
(*   src/utils/pdf_utils.py           extract_pdf_text_by_page, chunk_pages *)
(*   src/ingest/ingest_pdfs_to_neo4j.py   _as_int, ingest_from_json         *)
(* Strings are sequences of one-character strings, so that emptiness,      *)
(* strip(), int() and basename() are computed rather than assumed.         *)
(***************************************************************************)
EXTENDS Integers, Sequences, FiniteSets, TLC

VARIABLES items, limit, files, splitter,
          pc, i, processed, store, indexed, indexBuilds, reported,
          writes, run, snapshot,
          chunkIn, chunkOut

vars == <<items, limit, files, splitter, pc, i, processed, store, indexed,
          indexBuilds, reported, writes, run, snapshot, chunkIn, chunkOut>>

inputs == <<items, limit, files, splitter>>

(* ------------------------------ bounds --------------------------------- *)
MaxItems == 3
MaxLimit == 2
MaxRuns == 2
MaxPages == 2
MaxParts == 2

(* ------------------------- Python values ------------------------------- *)
None == [k |-> "none", n |-> 0, s |-> <<>>]
IntV(n) == [k |-> "int", n |-> n, s |-> <<>>]
StrV(s) == [k |-> "str", n |-> 0, s |-> s]
Raises == [k |-> "raise", n |-> 0, s |-> <<>>]

\* bool(v): None, 0 and "" are falsy
Truthy(v) ==
  CASE v.k = "none" -> FALSE
    [] v.k = "int" -> v.n # 0
    [] v.k = "str" -> v.s # <<>>
    [] OTHER -> TRUE

\* a or b
PyOr(a, b) == IF Truthy(a) THEN a ELSE b

IsSpace(c) == c \in {" ", "\t", "\n"}

RECURSIVE LStrip(_)
LStrip(s) == IF s # <<>> /\ IsSpace(Head(s)) THEN LStrip(Tail(s)) ELSE s

RECURSIVE RStrip(_)
RStrip(s) ==
  IF s # <<>> /\ IsSpace(s[Len(s)]) THEN RStrip(SubSeq(s, 1, Len(s) - 1)) ELSE s

\* str.strip()
Strip(s) == RStrip(LStrip(s))

Digits == <<"0", "1", "2", "3", "4", "5", "6", "7", "8", "9">>
IsDigit(c) == \E d \in 1..10 : Digits[d] = c
DigitVal(c) == (CHOOSE d \in 1..10 : Digits[d] = c) - 1

RECURSIVE DigitsVal(_, _)
DigitsVal(s, acc) ==
  IF s = <<>> THEN acc ELSE DigitsVal(Tail(s), acc * 10 + DigitVal(Head(s)))

AllDigits(s) == s # <<>> /\ \A p \in 1..Len(s) : IsDigit(s[p])

\* int(str): surrounding whitespace, an optional sign, then digits
StrBody(s) == IF Strip(s) # <<>> /\ Head(Strip(s)) \in {"-", "+"}
              THEN Tail(Strip(s)) ELSE Strip(s)
StrIsInt(s) == AllDigits(StrBody(s))
StrToInt(s) == IF Strip(s) # <<>> /\ Head(Strip(s)) = "-"
               THEN 0 - DigitsVal(StrBody(s), 0)
               ELSE DigitsVal(StrBody(s), 0)

\* _as_int(v, default=0): int(v), or default when int(v) raises
_as_int(v, default) ==
  CASE v.k = "int" -> v.n
    [] v.k = "str" -> IF StrIsInt(v.s) THEN StrToInt(v.s) ELSE default
    [] OTHER -> default

\* os.path.basename
RECURSIVE basename(_)
basename(s) ==
  IF \E p \in 1..Len(s) : s[p] = "/"
  THEN basename(Tail(s))
  ELSE s

(* ----------------------- src/utils/pdf_utils.py ------------------------- *)
\* os.path.isfile(path): files maps each existing file to its page outcomes
isfile(s) == s \in DOMAIN files

\* txt = page.extract_text() or "", "" when extract_text raises
PageText(outcome) ==
  IF outcome.k = "str" THEN outcome.s ELSE <<>>

\* extract_pdf_text_by_page(path): one string per page
extract_pdf_text_by_page(s) ==
  IF ~isfile(s) THEN <<>>
  ELSE [p \in 1..Len(files[s]) |-> PageText(files[s][p])]

\* chunk_pages numbering the retained parts instead of the raw ones
ChunkPartsRenumbered(pageNo, parts, j) ==
  LET kept == {q \in 1..Len(parts) : Strip(parts[q]) # <<>>}
  IN IF j >= Len(parts) THEN <<>>
     ELSE [r \in 1..Cardinality({q \in kept : q > j}) |->
             LET q == CHOOSE q \in kept :
                        q > j /\ Cardinality({o \in kept : o > j /\ o < q}) = r - 1
             IN [page |-> pageNo, idx |-> Cardinality({o \in kept : o < q}),
                 text |-> parts[q]]]

\* the inner loop of chunk_pages: enumerate(parts) from position j (0-based)
RECURSIVE ChunkParts(_, _, _)
ChunkParts(pageNo, parts, j) ==
  IF j >= Len(parts) THEN <<>>
  ELSE IF Strip(parts[j + 1]) = <<>>
       THEN ChunkParts(pageNo, parts, j + 1)
       ELSE <<[page |-> pageNo, idx |-> j, text |-> parts[j + 1]]>>
            \o ChunkParts(pageNo, parts, j + 1)

\* the outer loop of chunk_pages: enumerate(pages, start=1) from page pageNo
RECURSIVE ChunkFrom(_, _, _)
ChunkFrom(pages, split, pageNo) ==
  IF pageNo > Len(pages) THEN <<>>
  ELSE IF pages[pageNo] = <<>>
       THEN ChunkFrom(pages, split, pageNo + 1)
       ELSE ChunkParts(pageNo, split[pages[pageNo]], 0)
            \o ChunkFrom(pages, split, pageNo + 1)

\* chunk_pages(pages, chunk_size, chunk_overlap); split is the splitter built
\* from chunk_size and chunk_overlap, as a map from a text to its parts
chunk_pages(pages, split) == ChunkFrom(pages, split, 1)

(* ------------------------- the graph store ------------------------------ *)
EmptyStore == [docs |-> {}, chunks |-> {}, rels |-> {}, nextId |-> 1]

\* CREATE in place of MERGE: a new Document node on every write
CreateDocument(st, prm) ==
  [st EXCEPT
     !.docs = st.docs \cup {[id |-> st.nextId, path |-> prm.path,
                             title |-> prm.title, file_name |-> prm.file_name,
                             page_count |-> prm.page_count,
                             mime_type |-> prm.mime_type]},
     !.nextId = st.nextId + 1]

\* MERGE (d:Document {path: $path}) SET d.title = ..., d.page_count = ...
MergeDocument(st, prm) ==
  LET matched == {d \in st.docs : d.path = prm.path}
      created == IF matched = {} THEN {st.nextId} ELSE {}
      ids == {d.id : d \in matched} \cup created
  IN [st EXCEPT
        !.docs = {d \in st.docs : d.path # prm.path}
                 \cup {[id |-> n, path |-> prm.path, title |-> prm.title,
                        file_name |-> prm.file_name,
                        page_count |-> prm.page_count,
                        mime_type |-> prm.mime_type] : n \in ids},
        !.nextId = IF matched = {} THEN st.nextId + 1 ELSE st.nextId]

\* MERGE (c:Chunk {doc_path: $path, page: chunk.page, idx: chunk.idx})
\* SET c.content = chunk.text   MERGE (d)-[:HAS_CHUNK]->(c)
MergeChunk(st, path, chunk) ==
  LET same(c) == c.doc_path = path /\ c.page = chunk.page /\ c.idx = chunk.idx
      matched == {c \in st.chunks : same(c)}
      created == IF matched = {} THEN {st.nextId} ELSE {}
      ids == {c.id : c \in matched} \cup created
      dIds == {d.id : d \in {e \in st.docs : e.path = path}}
  IN [st EXCEPT
        !.chunks = {c \in st.chunks : ~same(c)}
                   \cup {[id |-> n, doc_path |-> path, page |-> chunk.page,
                          idx |-> chunk.idx, content |-> chunk.text] : n \in ids},
        !.rels = st.rels \cup (dIds \X ids),
        !.nextId = IF matched = {} THEN st.nextId + 1 ELSE st.nextId]

\* UNWIND $chunks AS chunk ...: the rows are handled in list order
RECURSIVE UnwindChunks(_, _, _)
UnwindChunks(st, path, chunks) ==
  IF chunks = <<>> THEN st
  ELSE UnwindChunks(MergeChunk(st, path, Head(chunks)), path, Tail(chunks))

\* graph.query(query, params) of the branch taken when there are no chunks
RegisterQuery(st, prm) == MergeDocument(st, prm)

\* graph.query(upsert, params): one statement, hence one transaction
UpsertQuery(st, prm) == UnwindChunks(MergeDocument(st, prm), prm.path, prm.chunks)

(* ------------------------------ inputs ---------------------------------- *)
ItemKeys == {"path", "Path", "title", "Title", "FileName", "MIMEType",
             "mime_type", "PageCount", "pages"}
NoKeys == [key \in ItemKeys |-> None]

PathA == <<"a">>
PathB == <<"d", "/", "b">>
PathZ == <<"z">>

\* manifest entries: dict.get(key) is None for an absent key
ItemSet ==
  { [NoKeys EXCEPT !["path"] = StrV(PathA)],
    [NoKeys EXCEPT !["path"] = StrV(<<>>), !["Path"] = StrV(PathA),
                   !["Title"] = StrV(<<"T">>), !["PageCount"] = IntV(3)],
    [NoKeys EXCEPT !["path"] = StrV(PathA), !["PageCount"] = IntV(-1),
                   !["mime_type"] = StrV(<<"m">>)],
    [NoKeys EXCEPT !["path"] = StrV(PathB)],
    [NoKeys EXCEPT !["Path"] = StrV(PathB), !["FileName"] = StrV(<<"f">>),
                   !["PageCount"] = StrV(<<"n">>), !["pages"] = IntV(5)],
    [NoKeys EXCEPT !["path"] = StrV(PathZ), !["pages"] = StrV(<<" ", "4">>)],
    [NoKeys EXCEPT !["title"] = StrV(<<"T">>)] }

Manifests == UNION {[1..n -> ItemSet] : n \in 0..MaxItems}

\* limit: Optional[int] = None; None is written -1, the limits drawn are >= 0
NoLimit == -1
Limits == {NoLimit} \cup (0..MaxLimit)

\* what the file system holds: path -> outcome of extract_text() per page
FileSets ==
  { (PathA :> <<StrV(<<"x">>)>>) @@ (PathB :> <<StrV(<<>>), None>>),
    (PathA :> <<StrV(<<" ">>)>>) @@ (PathB :> <<Raises, StrV(<<"x", "y">>)>>) }

\* RecursiveCharacterTextSplitter(chunk_size, chunk_overlap).split_text, for
\* two settings of chunk_size/chunk_overlap
Splitters ==
  { (<<"x">> :> <<<<"x">>>>) @@ (<<"x", "y">> :> << <<"x">>, <<"y">> >>)
      @@ (<<" ">> :> <<>>),
    (<<"x">> :> << <<>>, <<"x">> >>) @@ (<<"x", "y">> :> << <<"x", "y">> >>)
      @@ (<<" ">> :> << <<" ">> >>) }

(* -------------------- ingest_from_json: one entry ----------------------- *)
pdf_path(item) == PyOr(item["path"], item["Path"])

\* the path test without os.path.isfile
ValidPathNoFileCheck(item) == Truthy(pdf_path(item))

\* not (not pdf_path or not os.path.isfile(pdf_path))
ValidPath(item) == Truthy(pdf_path(item)) /\ isfile(pdf_path(item).s)

title(item) ==
  PyOr(PyOr(item["title"], item["Title"]), StrV(basename(pdf_path(item).s)))
file_name(item) == PyOr(item["FileName"], StrV(basename(pdf_path(item).s)))
mime_type(item) ==
  PyOr(PyOr(item["MIMEType"], item["mime_type"]),
       StrV(<<"a", "p", "p", "l", "i", "c", "a", "t", "i", "o", "n", "/",
              "p", "d", "f">>))
page_count(item) == _as_int(PyOr(PyOr(item["PageCount"], item["pages"]), IntV(0)), 0)

pages(item) == extract_pdf_text_by_page(pdf_path(item).s)
chunks(item) == chunk_pages(pages(item), splitter)

\* params of the query that registers a document without chunks
RegisterParams(item) ==
  [path |-> pdf_path(item).s, title |-> title(item),
   file_name |-> file_name(item), page_count |-> page_count(item),
   mime_type |-> mime_type(item), chunks |-> <<>>]

\* "page_count": page_count if page_count else len(pages)
UpsertPageCount(item) ==
  IF page_count(item) # 0 THEN page_count(item) ELSE Len(pages(item))

\* params of the upsert query
UpsertParams(item) ==
  [path |-> pdf_path(item).s, title |-> title(item),
   file_name |-> file_name(item), page_count |-> UpsertPageCount(item),
   mime_type |-> mime_type(item), chunks |-> chunks(item)]

(* --------------------------- the run ------------------------------------ *)
\* reported is the count the summary printed; NotReported before it is printed
NotReported == -1

Init ==
  /\ items \in Manifests
  /\ limit \in Limits
  /\ files \in FileSets
  /\ splitter \in Splitters
  /\ pc = "loop"
  /\ i = 1
  /\ processed = 0
  /\ store = EmptyStore
  /\ indexed = {}
  /\ indexBuilds = 0
  /\ reported = NotReported
  /\ writes = <<>>
  /\ run = 1
  /\ snapshot = EmptyStore
  /\ chunkIn = <<>>
  /\ chunkOut = <<>>

\* the limit test with > in place of >=
LimitReachedAfter == limit # NoLimit /\ processed > limit

\* if limit is not None and processed >= limit
LimitReached == limit # NoLimit /\ processed >= limit

InLoop == pc = "loop" /\ i <= Len(items) /\ ~LimitReached

\* the log of graph.query calls of the run: the entry, the params and whether
\* the call returned; a query without chunks is logged with chunks = <<>>
Issued(prm, ok) == Append(writes, [entry |-> i, prm |-> prm, ok |-> ok])

\* the index build skipped when nothing was processed
LoopExhaustedSkipsIndex ==
  /\ pc = "loop" /\ i > Len(items)
  /\ pc' = IF processed = 0 THEN "print" ELSE "index"
  /\ UNCHANGED <<inputs, i, processed, store, indexed, indexBuilds, reported,
                 writes, run, snapshot, chunkIn, chunkOut>>

\* for item in items: no item is left
LoopExhausted ==
  /\ pc = "loop" /\ i > Len(items)
  /\ pc' = "index"
  /\ UNCHANGED <<inputs, i, processed, store, indexed, indexBuilds, reported,
                 writes, run, snapshot, chunkIn, chunkOut>>

\* break
LimitBreak ==
  /\ pc = "loop" /\ i <= Len(items) /\ LimitReached
  /\ pc' = "index"
  /\ UNCHANGED <<inputs, i, processed, store, indexed, indexBuilds, reported,
                 writes, run, snapshot, chunkIn, chunkOut>>

\* continue: the entry has no valid file path
SkipEntry ==
  /\ InLoop /\ ~ValidPath(items[i])
  /\ i' = i + 1
  /\ UNCHANGED <<inputs, pc, processed, store, indexed, indexBuilds, reported,
                 writes, run, snapshot, chunkIn, chunkOut>>

\* if not chunks: graph.query(query, ...); processed += 1; continue
RegisterDocument ==
  /\ InLoop /\ ValidPath(items[i]) /\ chunks(items[i]) = <<>>
  /\ store' = RegisterQuery(store, RegisterParams(items[i]))
  /\ writes' = Issued(RegisterParams(items[i]), TRUE)
  /\ processed' = processed + 1
  /\ i' = i + 1
  /\ UNCHANGED <<inputs, pc, indexed, indexBuilds, reported, run, snapshot,
                 chunkIn, chunkOut>>

\* graph.query(upsert, ...); processed += 1
UpsertDocument ==
  /\ InLoop /\ ValidPath(items[i]) /\ chunks(items[i]) # <<>>
  /\ store' = UpsertQuery(store, UpsertParams(items[i]))
  /\ writes' = Issued(UpsertParams(items[i]), TRUE)
  /\ processed' = processed + 1
  /\ i' = i + 1
  /\ UNCHANGED <<inputs, pc, indexed, indexBuilds, reported, run, snapshot,
                 chunkIn, chunkOut>>

\* the failure caught per entry: the loop goes on with the next entry
WriteFailsCaught ==
  /\ InLoop /\ ValidPath(items[i])
  /\ writes' = Issued(IF chunks(items[i]) = <<>> THEN RegisterParams(items[i])
                      ELSE UpsertParams(items[i]), FALSE)
  /\ i' = i + 1
  /\ UNCHANGED <<inputs, pc, processed, store, indexed, indexBuilds, reported,
                 run, snapshot, chunkIn, chunkOut>>

\* the Document written by a statement of its own, before the statement that
\* writes the chunks fails
WriteFailsHalfCommitted ==
  /\ InLoop /\ ValidPath(items[i])
  /\ writes' = Issued(IF chunks(items[i]) = <<>> THEN RegisterParams(items[i])
                      ELSE UpsertParams(items[i]), FALSE)
  /\ store' = MergeDocument(store, IF chunks(items[i]) = <<>>
                                   THEN RegisterParams(items[i])
                                   ELSE UpsertParams(items[i]))
  /\ pc' = "aborted"
  /\ UNCHANGED <<inputs, i, processed, indexed, indexBuilds, reported,
                 run, snapshot, chunkIn, chunkOut>>

\* graph.query raises: nothing of the statement is committed, nothing catches
\* the exception, ingest_from_json is left
WriteFails ==
  /\ InLoop /\ ValidPath(items[i])
  /\ writes' = Issued(IF chunks(items[i]) = <<>> THEN RegisterParams(items[i])
                      ELSE UpsertParams(items[i]), FALSE)
  /\ pc' = "aborted"
  /\ UNCHANGED <<inputs, i, processed, store, indexed, indexBuilds, reported,
                 run, snapshot, chunkIn, chunkOut>>

\* Neo4jVector.from_existing_graph(...): embeds the content of every Chunk
BuildIndex ==
  /\ pc = "index"
  /\ indexed' = {c.id : c \in store.chunks}
  /\ indexBuilds' = indexBuilds + 1
  /\ pc' = "print"
  /\ UNCHANGED <<inputs, i, processed, store, reported, writes, run, snapshot,
                 chunkIn, chunkOut>>

\* Neo4jVector.from_existing_graph raises
IndexFails ==
  /\ pc = "index"
  /\ pc' = "aborted"
  /\ UNCHANGED <<inputs, i, processed, store, indexed, indexBuilds, reported,
                 writes, run, snapshot, chunkIn, chunkOut>>

\* print(f"Ingestion complete. Processed {processed} documents. ...")
PrintSummary ==
  /\ pc = "print"
  /\ reported' = processed
  /\ pc' = "done"
  /\ UNCHANGED <<inputs, i, processed, store, indexed, indexBuilds, writes,
                 run, snapshot, chunkIn, chunkOut>>

\* ingest_from_json is called again with the same arguments on the same store
RunAgain ==
  /\ pc = "done" /\ run < MaxRuns
  /\ run' = run + 1
  /\ snapshot' = store
  /\ pc' = "loop"
  /\ i' = 1
  /\ processed' = 0
  /\ indexBuilds' = 0
  /\ reported' = NotReported
  /\ writes' = <<>>
  /\ UNCHANGED <<inputs, store, indexed, chunkIn, chunkOut>>

Next ==
  \/ LoopExhausted
  \/ LimitBreak
  \/ SkipEntry
  \/ RegisterDocument
  \/ UpsertDocument
  \/ WriteFails
  \/ BuildIndex
  \/ IndexFails
  \/ PrintSummary
  \/ RunAgain

Spec == Init /\ [][Next]_vars

(* ------------------- chunk_pages on its own ----------------------------- *)
ChunkTexts == {<<>>, <<" ">>, <<"x">>}
ChunkPartSet == {<<>>, <<" ">>, <<" ", "x">>}
PartLists == UNION {[1..n -> ChunkPartSet] : n \in 0..MaxParts}
PageLists == UNION {[1..n -> ChunkTexts] : n \in 0..MaxPages}

InitChunk ==
  /\ chunkIn \in PageLists
  /\ splitter \in [ChunkTexts \ {<<>>} -> PartLists]
  /\ chunkOut = <<>>
  /\ pc = "chunk"
  /\ items = <<>>
  /\ limit = NoLimit
  /\ files = <<>>
  /\ i = 1
  /\ processed = 0
  /\ store = EmptyStore
  /\ indexed = {}
  /\ indexBuilds = 0
  /\ reported = NotReported
  /\ writes = <<>>
  /\ run = 1
  /\ snapshot = EmptyStore

\* chunks = chunk_pages(pages, chunk_size=..., chunk_overlap=...)
ChunkPages ==
  /\ pc = "chunk"
  /\ chunkOut' = chunk_pages(chunkIn, splitter)
  /\ pc' = "chunked"
  /\ UNCHANGED <<inputs, i, processed, store, indexed, indexBuilds, reported,
                 writes, run, snapshot, chunkIn>>

NextChunk == ChunkPages

SpecChunk == InitChunk /\ [][NextChunk]_vars

(* ======================= the claims ===================================== *)
\* the path a manifest entry names: "path", else "Path"
ClaimPath(item) ==
  IF item["path"] \notin {None, StrV(<<>>)} THEN item["path"] ELSE item["Path"]

\* the entry names an existing file
ClaimValid(item) ==
  /\ ClaimPath(item).k = "str"
  /\ ClaimPath(item).s # <<>>
  /\ ClaimPath(item).s \in DOMAIN files

ClaimValidIdx == {k \in 1..Len(items) : ClaimValid(items[k])}

\* the first L entries with a valid path, in manifest order
FirstValid(L) ==
  {k \in ClaimValidIdx : Cardinality({j \in ClaimValidIdx : j < k}) < L}

WrittenEntries == {writes[k].entry : k \in 1..Len(writes)}
OkWrites == {k \in 1..Len(writes) : writes[k].ok}
LoopEnded == pc \in {"index", "print", "done"}

NonBlank(s) == \E p \in 1..Len(s) : ~IsSpace(s[p])

DocsOf(p) == {d \in store.docs : d.path = p}
ChunksOf(p) == {c \in store.chunks : c.doc_path = p}
ChunkKey(c) == <<c.doc_path, c.page, c.idx>>

NoDuplicates ==
  /\ \A d, e \in store.docs : d.path = e.path => d = e
  /\ \A c, e \in store.chunks : ChunkKey(c) = ChunkKey(e) => c = e

\* C1: a second run of ingest_from_json with the same manifest, the same
\* extracted pages and the same splitter, against the store the first run
\* left, ends with the store exactly as the first run left it: the same
\* Document nodes with the same attributes, the same Chunk nodes with the same
\* content, the same HAS_CHUNK links; and the store never holds two Documents
\* with one path or two Chunks with one (doc_path, page, idx).
C1_Idempotent ==
  /\ NoDuplicates
  /\ (run >= 2 /\ pc = "done") => store = snapshot

C1_Witness ==
  /\ run = 2 /\ pc = "done"
  /\ Len(writes) = 3
  /\ Cardinality(store.docs) = 2
  /\ store.chunks # {}
  /\ \E k, l \in 1..Len(writes) :
       k < l /\ writes[k].prm.path = writes[l].prm.path
             /\ writes[k].prm.title # writes[l].prm.title

\* C2: with a limit L >= 0 a run issues at most L document writes and has
\* processed <= L; no write is ever issued for an entry that is not among the
\* first L entries with a valid path; when the manifest has at least L such
\* entries and the loop has ended, exactly those L entries were written, in
\* manifest order, and processed = L.  Skipped entries do not use up the limit.
C2_LimitCap ==
  limit # NoLimit =>
    /\ Len(writes) <= limit
    /\ processed <= limit
    /\ WrittenEntries \subseteq FirstValid(limit)
    /\ \A k, l \in 1..Len(writes) : k < l => writes[k].entry < writes[l].entry
    /\ (LoopEnded /\ Cardinality(ClaimValidIdx) >= limit) =>
         /\ WrittenEntries = FirstValid(limit)
         /\ OkWrites = 1..Len(writes)
         /\ processed = limit

C2_Witness ==
  /\ pc = "done" /\ limit = 1 /\ processed = 1
  /\ Len(items) = 3
  /\ ~ClaimValid(items[1]) /\ ClaimValid(items[2]) /\ ClaimValid(items[3])
  /\ WrittenEntries = {2}

\* what holds in every state, and of every step, of the skip policy
C3_StatePart ==
  /\ \A k \in 1..Len(writes) : ClaimValid(items[writes[k].entry])
  /\ pc # "aborted" => processed = Cardinality({k \in ClaimValidIdx : k < i})

C3_StepPart ==
  (pc = "loop" /\ i <= Len(items) /\ ~LimitReached /\ ~ClaimValid(items[i])) =>
    /\ pc' = "loop"
    /\ i' = i + 1
    /\ processed' = processed
    /\ store' = store
    /\ writes' = writes

\* C3: an entry whose path is missing, empty or names no existing file is
\* passed over in one step that raises nothing, writes nothing, leaves
\* processed unchanged and moves to the next entry; no write is ever issued
\* for such an entry; processed is always the number of entries with a valid
\* path before the current position, so at the end of the loop it is the
\* number of valid entries reached before the limit stopped the loop.
C3_SkipPolicy == []C3_StatePart /\ [][C3_StepPart]_vars

C3_Witness ==
  /\ pc = "done" /\ run = 1 /\ processed = 1
  /\ Len(items) = 3
  /\ items[1]["path"] = StrV(PathZ)
  /\ items[2]["path"] = None /\ items[2]["Path"] = None
  /\ ClaimValid(items[3])
  /\ WrittenEntries = {3}

\* the file p has pages and none of them has text
AllPagesEmpty(p) ==
  /\ Len(files[p]) > 0
  /\ \A q \in 1..Len(files[p]) : PageText(files[p][q]) = <<>>

\* C4: a valid path whose pages all have no text is still registered: after
\* its write the store holds a Document for the path whose page_count is the
\* number of pages of the file, no Chunk has that doc_path, and the entry was
\* counted in processed.
C4_EmptyDocRegistered ==
  \A k \in OkWrites :
    AllPagesEmpty(writes[k].prm.path) =>
      /\ \E d \in store.docs :
           d.path = writes[k].prm.path
           /\ d.page_count = Len(files[writes[k].prm.path])
      /\ ChunksOf(writes[k].prm.path) = {}
      /\ processed >= 1

\* what holds in every state, and of every step, of the index build
C5_StatePart ==
  /\ indexBuilds <= 1
  /\ pc = "loop" => indexBuilds = 0
  /\ pc \in {"print", "done"} => indexBuilds = 1
  /\ reported # NotReported => (indexBuilds = 1 /\ pc = "done")
  /\ pc = "done" =>
       /\ reported = processed
       /\ indexed = {c.id : c \in store.chunks}

C5_StepPart ==
  /\ indexBuilds' > indexBuilds => (pc = "index" /\ writes' = writes /\ store' = store)
  /\ (writes' # writes /\ run' = run) => (indexBuilds = 0 /\ indexBuilds' = 0)

\* C5: in a run that does not abort the vector index is built exactly once,
\* after the loop has ended and so after every document write of the run, and
\* before the summary is printed; also when nothing was processed.
C5_IndexOnceAndLast == []C5_StatePart /\ [][C5_StepPart]_vars

C5_Witness ==
  /\ pc = "done" /\ processed = 0 /\ indexBuilds = 1
  /\ Len(items) = 2 /\ writes = <<>> /\ limit = NoLimit

\* what holds in every state, and of every step, of a failing write
C6_StatePart ==
  /\ \A k \in 1..Len(writes) :
       ~writes[k].ok =>
         /\ k = Len(writes)
         /\ pc = "aborted"
         /\ i = writes[k].entry
         /\ indexBuilds = 0
         /\ reported = NotReported
         /\ processed = Len(writes) - 1
  /\ \A k \in OkWrites : DocsOf(writes[k].prm.path) # {}
  /\ \A k, l \in 1..Len(writes) : k < l => writes[k].entry < writes[l].entry

C6_StepPart ==
  /\ pc = "aborted" => UNCHANGED vars
  /\ (pc = "loop" /\ pc' = "aborted") =>
       (store' = store /\ processed' = processed /\ reported' = NotReported)

\* C6: a failed store write is the last write of the run: it is not caught
\* and not retried, the run is aborted with no write for a later entry, no
\* index build and no summary; the failed write changes nothing in the store,
\* so what the earlier entries wrote is still there; an aborted run takes no
\* further step.
C6_FailFast == []C6_StatePart /\ [][C6_StepPart]_vars

C6_Witness ==
  /\ pc = "aborted"
  /\ Len(items) = 3
  /\ Len(writes) = 2
  /\ writes[1].ok /\ ~writes[2].ok
  /\ writes[2].entry = 2
  /\ Cardinality(store.docs) = 1
  /\ DocsOf(writes[2].prm.path) = {}

\* the chunks of the file p: what one write for p carries
Batch(p) == chunk_pages(extract_pdf_text_by_page(p), splitter)

\* C7: every counted entry issued exactly one write, which carries that
\* entry's path, attributes and all of its chunks and nothing of another
\* entry; in every store state, also after a failed write, a path has either
\* no Document and no Chunk, or one Document with every chunk of its batch
\* stored and linked to it; every link joins a Document and a Chunk of one path.
C7_AtomicPerDocument ==
  /\ \A k, l \in 1..Len(writes) : k < l => writes[k].entry < writes[l].entry
  /\ processed = Cardinality(OkWrites)
  /\ \A k \in 1..Len(writes) :
       /\ writes[k].prm.path = ClaimPath(items[writes[k].entry]).s
       /\ writes[k].prm.chunks = Batch(writes[k].prm.path)
  /\ \A c \in store.chunks : c.doc_path \in DOMAIN files
  /\ \A p \in DOMAIN files :
       \/ DocsOf(p) = {} /\ ChunksOf(p) = {}
       \/ /\ Cardinality(DocsOf(p)) = 1
          /\ Cardinality(ChunksOf(p)) = Len(Batch(p))
          /\ \A b \in 1..Len(Batch(p)) :
               \E c \in ChunksOf(p) :
                 /\ c.page = Batch(p)[b].page
                 /\ c.idx = Batch(p)[b].idx
                 /\ c.content = Batch(p)[b].text
                 /\ \A d \in DocsOf(p) : <<d.id, c.id>> \in store.rels
  /\ \A r \in store.rels :
       \E d \in store.docs, c \in store.chunks :
         r = <<d.id, c.id>> /\ d.path = c.doc_path

C7_Witness ==
  /\ pc = "aborted"
  /\ Len(writes) = 2
  /\ writes[1].ok /\ writes[1].prm.chunks = <<>>
  /\ ~writes[2].ok /\ Len(writes[2].prm.chunks) = 2
  /\ DocsOf(writes[2].prm.path) = {} /\ ChunksOf(writes[2].prm.path) = {}
  /\ DocsOf(writes[1].prm.path) # {}

\* the page count a manifest entry supplies: "PageCount", else "pages"
ClaimSupplied(item) ==
  IF item["PageCount"] \notin {None, IntV(0), StrV(<<>>)}
  THEN item["PageCount"] ELSE item["pages"]

ClaimPageCount(item) ==
  IF ClaimSupplied(item).k = "int" /\ ClaimSupplied(item).n > 0
  THEN ClaimSupplied(item).n
  ELSE Len(files[ClaimPath(item).s])

LastWriteOf(k) ==
  \A l \in OkWrites : l > k => writes[l].prm.path # writes[k].prm.path

\* C8: for an entry written with at least one chunk, the stored page_count is
\* the manifest's page count when that is a positive integer and the number of
\* extracted pages otherwise (absent, 0, non-numeric, negative); so no stored
\* page_count is negative.
C8_PageCountRule ==
  /\ \A k \in OkWrites :
       (writes[k].prm.chunks # <<>> /\ LastWriteOf(k)) =>
         \A d \in DocsOf(writes[k].prm.path) :
           d.page_count = ClaimPageCount(items[writes[k].entry])
  /\ \A d \in store.docs : d.page_count >= 0

\* C9: within one run each distinct path is written at most once and counted
\* at most once, also when the manifest lists it more than once; a run never
\* deletes a Document or a Chunk.
C9_OncePerPath ==
  /\ \A k, l \in 1..Len(writes) :
       k # l => writes[k].prm.path # writes[l].prm.path
  /\ processed <= Cardinality({ClaimPath(items[k]).s : k \in ClaimValidIdx})
  /\ {d.id : d \in snapshot.docs} \subseteq {d.id : d \in store.docs}
  /\ {c.id : c \in snapshot.chunks} \subseteq {c.id : c \in store.chunks}

\* C10: every record chunk_pages emits has page = the 1-based position of a
\* page with non-empty text, idx = the 0-based position of its text in the
\* splitter's raw output for that page, and a text that is not blank; records
\* come in strictly increasing (page, idx) order, so no two share (page, idx).
C10_ChunkKeys ==
  pc = "chunked" =>
    /\ \A k \in 1..Len(chunkOut) :
         /\ chunkOut[k].page \in 1..Len(chunkIn)
         /\ chunkIn[chunkOut[k].page] # <<>>
         /\ chunkOut[k].idx \in 0..(Len(splitter[chunkIn[chunkOut[k].page]]) - 1)
         /\ chunkOut[k].text = splitter[chunkIn[chunkOut[k].page]][chunkOut[k].idx + 1]
         /\ NonBlank(chunkOut[k].text)
    /\ \A k, l \in 1..Len(chunkOut) :
         k < l => \/ chunkOut[k].page < chunkOut[l].page
                  \/ /\ chunkOut[k].page = chunkOut[l].page
                     /\ chunkOut[k].idx < chunkOut[l].idx

C10_Witness ==
  /\ pc = "chunked"
  /\ Len(chunkIn) = 2 /\ chunkIn[1] = <<>>
  /\ Len(chunkOut) = 1
  /\ chunkOut[1].page = 2 /\ chunkOut[1].idx = 1
  /\ ~NonBlank(splitter[chunkIn[2]][1])

====
